---- MODULE Spec2Model ----
(***************************************************************************)
(* Model of tillIdie.py: a periodic uptime recorder.  main() loads          *)
(* config.txt, initializes the git working directory and then loops        *)
(* forever: sample uptime, append a line to uptime.log, stage, commit,     *)
(* pull --rebase, push, sleep.                                             *)
(*                                                                         *)
(* Strings are sequences of symbols: " " is whitespace, "#" and "=" are    *)
(* themselves, every other symbol is a word without whitespace, "#" or     *)
(* "=".  A value that Python calls None is the record NoneVal.             *)
(*                                                                         *)
(* git and uptime are external commands.  A command that depends on the    *)
(* environment (uptime, the append to the file, git commit, git pull,      *)
(* git push) may exit non-zero at any time; a command that only touches    *)
(* local repository metadata (remote get-url/add/set-url, add, status,     *)
(* rebase --abort, reset) exits non-zero exactly when git refuses it in    *)
(* the modelled repository state.                                          *)
(*                                                                         *)
(* The branch on the remote receives the pushes of this process and,       *)
(* besides, commits of other writers; such a commit either leaves          *)
(* uptime.log alone (a rebase onto it is clean) or conflicts with the      *)
(* local changes to uptime.log (the rebase stops).  Nobody else writes     *)
(* to the working directory.                                               *)
(***************************************************************************)
EXTENDS Integers, Sequences, FiniteSets, TLC

\* ---------------------------------------------------------------- bounds
MaxCycles == 3      \* cycles of the main loop that are explored
MaxForeign == 1     \* commits pushed to the remote branch by somebody else
MaxRuns == 2        \* process starts explored when the process is restarted
MaxCalls == 2       \* direct extra calls of git_commit_and_push
MaxFileLen == 6     \* symbols of a generated config.txt

\* ------------------------------------------------------- module constants
UPTIME_FILE_PATH == "uptime.log"
GITIGNORE_PATH == ".gitignore"
GIT_REMOTE_NAME == "origin"
TOKEN_PLACEHOLDER == <<"your_pat_here">>
URL_PLACEHOLDER == <<"https://", "github.com/your_username/your_repo.git">>

\* ------------------------------------------------------------ Python None
NoneVal == [some |-> FALSE, val |-> <<>>]
Some(v) == [some |-> TRUE, val |-> v]

\* Python truthiness of an optional string / mapping: None and empty are falsy
Truthy(o) == o.some /\ o.val # <<>>

\* ------------------------------------------------------------ str methods
\* what str.strip() removes
Whitespace == {" ", "\n"}

RECURSIVE lstrip(_)
lstrip(s) == IF s # <<>> /\ Head(s) \in Whitespace THEN lstrip(Tail(s)) ELSE s

RECURSIVE rstrip(_)
rstrip(s) ==
  IF s # <<>> /\ s[Len(s)] \in Whitespace
  THEN rstrip(SubSeq(s, 1, Len(s) - 1)) ELSE s

strip(s) == rstrip(lstrip(s))

startswith(s, c) == s # <<>> /\ Head(s) = c

\* index of the first occurrence of c in s, 0 when there is none
FirstIndex(s, c) ==
  IF \E i \in 1..Len(s) : s[i] = c
  THEN CHOOSE i \in 1..Len(s) : s[i] = c /\ \A j \in 1..(i - 1) : s[j] # c
  ELSE 0

\* url.replace(old, new) where old is one symbol and new a sequence
RECURSIVE replace(_, _, _)
replace(s, old, new) ==
  IF s = <<>> THEN <<>>
  ELSE (IF Head(s) = old THEN new ELSE <<Head(s)>>) \o replace(Tail(s), old, new)

\* dict item assignment config[k] = v
Put(config, k, v) ==
  [x \in (DOMAIN config) \cup {k} |-> IF x = k THEN v ELSE config[x]]

\* dict.get(k): None when the key is absent
Get(config, k) == IF k \in DOMAIN config THEN Some(config[k]) ELSE NoneVal

\* iteration over a text file: the lines, each with its line terminator
RECURSIVE readlines(_)
readlines(text) ==
  IF text = <<>> THEN <<>>
  ELSE LET i == FirstIndex(text, "\n") IN
       IF i = 0 THEN <<text>>
       ELSE <<SubSeq(text, 1, i)>> \o readlines(SubSeq(text, i + 1, Len(text)))

\* ------------------------------------------------------------ load_config
\* Mutation of parse_lines: on a line without "=" the mapping built so far
\* is returned.
RECURSIVE parse_lines_partial(_, _)
parse_lines_partial(lines, config) ==
  IF lines = <<>> THEN Some(config)
  ELSE LET line == strip(Head(lines)) IN
       IF line # <<>> /\ ~startswith(line, "#")
       THEN LET i == FirstIndex(line, "=") IN
            IF i = 0 THEN Some(config)
            ELSE parse_lines_partial(Tail(lines),
                        Put(config, strip(SubSeq(line, 1, i - 1)),
                                    strip(SubSeq(line, i + 1, Len(line)))))
       ELSE parse_lines_partial(Tail(lines), config)

\* index of the last occurrence of c in s, 0 when there is none
LastIndex(s, c) ==
  IF \E i \in 1..Len(s) : s[i] = c
  THEN CHOOSE i \in 1..Len(s) : s[i] = c /\ \A j \in (i + 1)..Len(s) : s[j] # c
  ELSE 0

\* Mutation of parse_lines: the line is split on its last "=".
RECURSIVE parse_lines_split_last(_, _)
parse_lines_split_last(lines, config) ==
  IF lines = <<>> THEN Some(config)
  ELSE LET line == strip(Head(lines)) IN
       IF line # <<>> /\ ~startswith(line, "#")
       THEN LET i == LastIndex(line, "=") IN
            IF i = 0 THEN NoneVal
            ELSE parse_lines_split_last(Tail(lines),
                        Put(config, strip(SubSeq(line, 1, i - 1)),
                                    strip(SubSeq(line, i + 1, Len(line)))))
       ELSE parse_lines_split_last(Tail(lines), config)

\* Mutation of parse_lines: a line without "=" is skipped instead of
\* failing the load.
RECURSIVE parse_lines_skipping(_, _)
parse_lines_skipping(lines, config) ==
  IF lines = <<>> THEN Some(config)
  ELSE LET line == strip(Head(lines)) IN
       IF line # <<>> /\ ~startswith(line, "#") /\ FirstIndex(line, "=") # 0
       THEN LET i == FirstIndex(line, "=") IN
            parse_lines_skipping(Tail(lines),
                        Put(config, strip(SubSeq(line, 1, i - 1)),
                                    strip(SubSeq(line, i + 1, Len(line)))))
       ELSE parse_lines_skipping(Tail(lines), config)

\* The for loop of load_config over the remaining lines; line.split('=', 1)
\* yields one element when the line has no "=", the unpacking raises
\* ValueError and the handler returns None.
RECURSIVE parse_lines(_, _)
parse_lines(lines, config) ==
  IF lines = <<>> THEN Some(config)
  ELSE LET line == strip(Head(lines)) IN
       IF line # <<>> /\ ~startswith(line, "#")
       THEN LET i == FirstIndex(line, "=") IN
            IF i = 0 THEN NoneVal
            ELSE parse_lines(Tail(lines),
                        Put(config, strip(SubSeq(line, 1, i - 1)),
                                    strip(SubSeq(line, i + 1, Len(line)))))
       ELSE parse_lines(Tail(lines), config)

load_config(file) ==
  IF ~file.exists THEN NoneVal ELSE parse_lines(file.lines, <<>>)

\* --------------------------------------------------- config files explored
TokenLine(t) == <<"GH_TOKEN", "=">> \o t
UrlLine(u) == <<"GITHUB_REPO_URL", " ", "=", " ">> \o u \o <<" ">>
Url1 == <<"https://", "host/repo.git">>

FileOf(ls) == [exists |-> TRUE, lines |-> ls]

FileAbsent == [exists |-> FALSE, lines |-> <<>>]
FileValid ==
  FileOf(<< <<"#", " ", "credentials">>, <<>>, TokenLine(<<"tok">>), UrlLine(Url1) >>)
FileValid2 == FileOf(<< TokenLine(<<"tok2">>), UrlLine(Url1) >>)
FileMalformed ==
  FileOf(<< TokenLine(<<"tok">>), UrlLine(Url1), <<"garbage">> >>)
FileEmpty == FileOf(<< <<"#", "nothing">>, <<" ">> >>)
FileTokenPlaceholder == FileOf(<< TokenLine(TOKEN_PLACEHOLDER), UrlLine(Url1) >>)
FileUrlPlaceholder == FileOf(<< TokenLine(<<"tok">>), UrlLine(URL_PLACEHOLDER) >>)
FileTokenEmpty == FileOf(<< TokenLine(<<>>), UrlLine(Url1) >>)
FileUrlMissing == FileOf(<< TokenLine(<<"tok">>) >>)

ConfigFiles ==
  { FileAbsent, FileValid, FileValid2, FileMalformed, FileEmpty,
    FileTokenPlaceholder, FileUrlPlaceholder, FileTokenEmpty, FileUrlMissing }

\* FileValid2 is what the operator changes config.txt to between two runs
FirstConfigFiles == ConfigFiles \ {FileValid2}

\* every text of at most MaxFileLen symbols, as a config file
ConfigSymbols == {"\n", " ", "#", "=", "k"}
ConfigTexts == UNION {[1..n -> ConfigSymbols] : n \in 0..MaxFileLen}
GeneratedFiles == {FileOf(readlines(t)) : t \in ConfigTexts}

\* ------------------------------------------------- credentials and the URL
\* Mutation of credentials_unresolved: the placeholder token is accepted.
credentials_unresolved_no_placeholder(gh_token, github_repo_url) ==
  \/ ~Truthy(gh_token)
  \/ ~Truthy(github_repo_url)
  \/ github_repo_url.val = URL_PLACEHOLDER

\* the condition of the if statement at line 58
credentials_unresolved(gh_token, github_repo_url) ==
  \/ ~Truthy(gh_token)
  \/ gh_token.val = TOKEN_PLACEHOLDER
  \/ ~Truthy(github_repo_url)
  \/ github_repo_url.val = URL_PLACEHOLDER

\* line 62: the token is inserted after every "https://"
auth_url_of(gh_token, github_repo_url) ==
  replace(github_repo_url, "https://", <<"https://">> \o gh_token \o <<"@">>)

\* ------------------------------------------------------------------ state
VARIABLES
  pc,            \* position of the process in main()
  cfgFile,       \* config.txt: [exists, lines]
  config,        \* result of load_config
  current_url,   \* result of git remote get-url
  uptime_output, \* result of get_uptime in the current cycle
  gitDir,        \* .git exists
  ignoreFile,    \* .gitignore: None or its rules
  ignoreState,   \* .gitignore in git: "untracked", "staged" or "committed"
  remotes,       \* remotes of the working directory: set of [name, url]
  log,           \* uptime.log in the working tree: sequence of lines
  index,         \* uptime.log as staged in the index
  history,       \* commits of the local branch, oldest first
  remoteHist,    \* commits of the branch on the remote; <<>> = no branch
  upstream,      \* the local branch tracks the remote branch
  rebasing,      \* a stopped rebase is in progress
  origHead,      \* ORIG_HEAD of the stopped rebase
  result,        \* return value of git_commit_and_push: "none" while running
  cmds,          \* commands run in the current cycle (or direct call)
  initCmds,      \* commands and file writes of initialize_git_repository,
                 \* kept until the first cycle starts
  cycles,        \* cycles started so far
  foreign,       \* commits pushed to the remote by somebody else so far
  runs,          \* process starts so far
  calls,         \* direct extra calls of git_commit_and_push so far
  hist0,         \* history when the current cycle (or direct call) started
  log0,          \* uptime.log when the current cycle (or direct call) started
  prevLog,       \* uptime.log when last no rebase was in progress
  remotes0,      \* remotes when the process started, kept likewise
  prev,          \* result and commands of the previous git_commit_and_push
  written        \* the lines that were appended to uptime.log so far

vars ==
  << pc, cfgFile, config, current_url, uptime_output, gitDir, ignoreFile,
     ignoreState, remotes, log, index, history, remoteHist, upstream, rebasing, origHead,
     result, cmds, initCmds, cycles, foreign, runs, calls, hist0, log0,
     prevLog, remotes0, prev, written >>

\* groups of variables an action leaves alone
cfgVars == << cfgFile, config, current_url >>
repoVars == << gitDir, ignoreFile, ignoreState, remotes >>
treeVars == << log, index, history, rebasing, origHead, prevLog >>
farVars == << remoteHist, upstream, foreign >>
countVars == << cycles, runs, calls, remotes0, prev, written >>
cycleVars == << uptime_output, result, cmds, hist0, log0 >>

\* a command that was run, with whether it exited with status zero
Ran(c, ok) == [cmd |-> c, ok |-> ok]

\* ---------------------------------------------------------------- commits
LogCommit(l) == [kind |-> "log", log |-> l, n |-> 0, conflicts |-> FALSE]
IgnoreFileCommit(l) == [kind |-> "ignore", log |-> l, n |-> 0, conflicts |-> FALSE]
ForeignCommit(k, c) == [kind |-> "foreign", log |-> <<>>, n |-> k, conflicts |-> c]
PriorCommit == [kind |-> "prior", log |-> <<>>, n |-> 0, conflicts |-> FALSE]

IsPrefix(s, t) == Len(s) <= Len(t) /\ \A i \in 1..Len(s) : s[i] = t[i]
Front(s) == SubSeq(s, 1, Len(s) - 1)

\* uptime.log as of the tip of history h (<<>> when no commit holds it)
HeadLog(h) ==
  LET I == {i \in 1..Len(h) : h[i].kind \in {"log", "ignore"}} IN
  IF I = {} THEN <<>> ELSE h[CHOOSE i \in I : \A j \in I : j <= i].log

\* length of the longest common prefix of two histories
CommonLen(a, b) ==
  CHOOSE k \in 0..Len(a) :
    /\ k <= Len(b)
    /\ \A i \in 1..k : a[i] = b[i]
    /\ (k < Len(a) /\ k < Len(b)) => a[k + 1] # b[k + 1]

\* ------------------------------------------------------------ ignore rules
\* the rules written at line 52 (comment lines left out)
IGNORE_RULES == <<"*", "!uptime.log">>

\* gitignore matching: the last rule that matches the path decides
Matches(rule, path) == rule = "*" \/ rule = path \/ rule = "!" \o path
Ignored(rules, path) ==
  LET I == {i \in 1..Len(rules) : Matches(rules[i], path)} IN
  IF I = {} THEN FALSE
  ELSE LET r == rules[CHOOSE i \in I : \A j \in I : j <= i] IN r # "!" \o path

\* -------------------------------------------------------- git on the state
\* git status --porcelain: empty when index, HEAD and working tree agree
porcelain(h, idx, wt) ==
  IF idx = HeadLog(h) /\ wt = idx THEN <<>> ELSE <<"M">>

\* git remote get-url <name>
get_url(rs, name) ==
  IF \E r \in rs : r.name = name
  THEN Some((CHOOSE r \in rs : r.name = name).url)
  ELSE NoneVal

\* git remote set-url <name> <url>: refused when the name is unbound
set_url(rs, name, url) ==
  IF \E r \in rs : r.name = name
  THEN {r \in rs : r.name # name} \cup {[name |-> name, url |-> url]}
  ELSE rs

\* git remote add <name> <url>: refused when the name is bound
remote_add(rs, name, url) ==
  IF \E r \in rs : r.name = name THEN rs
  ELSE rs \cup {[name |-> name, url |-> url]}

\* working tree text of a rebase stopped on a conflict: the base text, then
\* the conflict markers around the lines of the commit being replayed
CONFLICT_MARKER == -1
ConflictText(base, replayed) ==
  base \o <<CONFLICT_MARKER>> \o
  SubSeq(replayed, Len(base) + 1, Len(replayed)) \o <<CONFLICT_MARKER>>

\* ------------------------------------------------------------------- Init
OtherUrl == <<"https://", "elsewhere/repo.git">>
RemoteSets ==
  { {},
    {[name |-> GIT_REMOTE_NAME, url |-> OtherUrl]},
    {[name |-> GIT_REMOTE_NAME, url |-> auth_url_of(<<"tok">>, Url1)]},
    {[name |-> "backup", url |-> OtherUrl]} }

Init ==
  /\ pc = "load"
  /\ cfgFile \in FirstConfigFiles
  /\ config = NoneVal
  /\ current_url = NoneVal
  /\ uptime_output = NoneVal
  /\ gitDir \in BOOLEAN
  /\ ignoreFile \in {NoneVal, Some(IGNORE_RULES)}
  /\ ignoreState = "untracked"
  /\ remotes \in (IF gitDir THEN RemoteSets ELSE {{}})
  /\ log = <<>>
  /\ index = <<>>
  /\ history \in (IF gitDir THEN {<<>>, <<PriorCommit>>} ELSE {<<>>})
  /\ remoteHist \in {<<>>, <<PriorCommit>>}
  /\ upstream = FALSE
  /\ rebasing = FALSE
  /\ origHead = <<>>
  /\ result = "none"
  /\ cmds = <<>>
  /\ initCmds = <<>>
  /\ cycles = 0
  /\ foreign = 0
  /\ runs = 1
  /\ calls = 0
  /\ hist0 = history
  /\ log0 = <<>>
  /\ prevLog = <<>>
  /\ remotes0 = remotes
  /\ prev = [result |-> "none", cmds |-> <<>>]
  /\ written = {}

\* ------------------------------------------------- main(): before the loop
\* lines 137-139
LoadConfig ==
  /\ pc = "load"
  /\ config' = load_config(cfgFile)
  /\ pc' = IF ~Truthy(config') THEN "exited" ELSE "init_dir"
  /\ UNCHANGED << cfgFile, current_url, repoVars, treeVars, farVars,
                  countVars, cycleVars, initCmds >>

\* lines 45-47: git init when there is no .git
InitDir ==
  /\ pc = "init_dir"
  /\ IF ~gitDir
     THEN gitDir' = TRUE /\ initCmds' = Append(initCmds, "init")
     ELSE UNCHANGED << gitDir, initCmds >>
  /\ pc' = "init_ignore"
  /\ UNCHANGED << cfgVars, ignoreFile, ignoreState, remotes, treeVars,
                  farVars, countVars, cycleVars >>

\* Mutation of InitIgnore: .gitignore is written without the existence test.
InitIgnore_rewrite ==
  /\ pc = "init_ignore"
  /\ IF TRUE
     THEN /\ ignoreFile' = Some(IGNORE_RULES)
          /\ initCmds' = Append(initCmds, "write_ignore")
          /\ pc' = "ignore_add"
     ELSE /\ UNCHANGED << ignoreFile, initCmds >>
          /\ pc' = "validate"
  /\ UNCHANGED << cfgVars, gitDir, ignoreState, remotes, treeVars, farVars,
                  countVars, cycleVars >>

\* lines 49-53: write .gitignore when there is none
InitIgnore ==
  /\ pc = "init_ignore"
  /\ IF ~ignoreFile.some
     THEN /\ ignoreFile' = Some(IGNORE_RULES)
          /\ initCmds' = Append(initCmds, "write_ignore")
          /\ pc' = "ignore_add"
     ELSE /\ UNCHANGED << ignoreFile, initCmds >>
          /\ pc' = "validate"
  /\ UNCHANGED << cfgVars, gitDir, ignoreState, remotes, treeVars, farVars,
                  countVars, cycleVars >>

\* line 54: git add .gitignore; git refuses a path that the rules ignore
IgnoreAdd ==
  /\ pc = "ignore_add"
  /\ initCmds' = Append(initCmds, "add_ignore")
  /\ ignoreState' = IF Ignored(ignoreFile.val, GITIGNORE_PATH)
                    THEN ignoreState ELSE "staged"
  /\ pc' = "ignore_commit"
  /\ UNCHANGED << cfgVars, gitDir, ignoreFile, remotes, treeVars, farVars,
                  countVars, cycleVars >>

\* line 55: git commit -m 'feat: Add .gitignore'; commits what is staged,
\* exits non-zero when nothing is; the result is not looked at
IgnoreCommit ==
  /\ pc = "ignore_commit"
  /\ initCmds' = Append(initCmds, "commit_ignore")
  /\ \E ok \in BOOLEAN :
       IF ok /\ (ignoreState = "staged" \/ index # HeadLog(history))
       THEN /\ history' = Append(history,
                   IF ignoreState = "staged" THEN IgnoreFileCommit(index)
                   ELSE LogCommit(index))
            /\ ignoreState' = IF ignoreState = "staged" THEN "committed"
                              ELSE ignoreState
       ELSE UNCHANGED << history, ignoreState >>
  /\ pc' = "validate"
  /\ UNCHANGED << cfgVars, gitDir, ignoreFile, remotes, log, index, rebasing,
                  origHead, prevLog, farVars, countVars, cycleVars >>

gh_token == Get(config.val, <<"GH_TOKEN">>)
github_repo_url == Get(config.val, <<"GITHUB_REPO_URL">>)
auth_url == auth_url_of(gh_token.val, github_repo_url.val)

\* lines 58-60, and line 144-145 of main when the result is False
Validate ==
  /\ pc = "validate"
  /\ pc' = IF credentials_unresolved(gh_token, github_repo_url)
           THEN "exited" ELSE "get_url"
  /\ UNCHANGED << cfgVars, repoVars, treeVars, farVars, countVars,
                  cycleVars, initCmds >>

\* line 64
RemoteGetUrl ==
  /\ pc = "get_url"
  /\ current_url' = get_url(remotes, GIT_REMOTE_NAME)
  /\ initCmds' = Append(initCmds, "get-url")
  /\ pc' = "reconcile"
  /\ UNCHANGED << cfgFile, config, repoVars, treeVars, farVars, countVars,
                  cycleVars >>

\* Mutation of RemoteReconcile: set-url is issued even when the remote is
\* already bound to the target URL.
RemoteReconcile_always_set ==
  /\ pc = "reconcile"
  /\ IF Truthy(current_url)
     THEN /\ remotes' = set_url(remotes, GIT_REMOTE_NAME, auth_url)
          /\ initCmds' = Append(initCmds, "set-url")
     ELSE /\ remotes' = remote_add(remotes, GIT_REMOTE_NAME, auth_url)
          /\ initCmds' = Append(initCmds, "remote_add")
  /\ pc' = "sample"
  /\ current_url' = NoneVal
  /\ UNCHANGED << cfgFile, config, gitDir, ignoreFile, ignoreState, treeVars,
                  farVars, countVars, cycleVars >>

\* Mutation of RemoteReconcile: the two branches are exchanged.
RemoteReconcile_swapped ==
  /\ pc = "reconcile"
  /\ IF current_url # Some(auth_url)
     THEN IF Truthy(current_url)
          THEN /\ remotes' = remote_add(remotes, GIT_REMOTE_NAME, auth_url)
               /\ initCmds' = Append(initCmds, "remote_add")
          ELSE /\ remotes' = set_url(remotes, GIT_REMOTE_NAME, auth_url)
               /\ initCmds' = Append(initCmds, "set-url")
     ELSE UNCHANGED << remotes, initCmds >>
  /\ pc' = "sample"
  /\ current_url' = NoneVal
  /\ UNCHANGED << cfgFile, config, gitDir, ignoreFile, ignoreState, treeVars,
                  farVars, countVars, cycleVars >>

\* lines 66-76, then main enters the loop
RemoteReconcile ==
  /\ pc = "reconcile"
  /\ IF current_url # Some(auth_url)
     THEN IF Truthy(current_url)
          THEN /\ remotes' = set_url(remotes, GIT_REMOTE_NAME, auth_url)
               /\ initCmds' = Append(initCmds, "set-url")
          ELSE /\ remotes' = remote_add(remotes, GIT_REMOTE_NAME, auth_url)
               /\ initCmds' = Append(initCmds, "remote_add")
     ELSE UNCHANGED << remotes, initCmds >>
  /\ pc' = "sample"
  /\ current_url' = NoneVal
  /\ UNCHANGED << cfgFile, config, gitDir, ignoreFile, ignoreState, treeVars,
                  farVars, countVars, cycleVars >>

\* ------------------------------------------------------ main(): the loop
UptimeOutputs == {NoneVal, Some(<<>>), Some(<<"up">>)}

\* Mutation of SampleUptime: a failed sample ends the process.
SampleUptime_exits ==
  /\ pc = "sample"
  /\ \E out \in UptimeOutputs :
       /\ uptime_output' = out
       /\ cmds' = <<Ran("uptime", out.some)>>
       /\ pc' = IF Truthy(out) THEN "write" ELSE "exited"
  /\ result' = "none"
  /\ hist0' = history
  /\ log0' = log
  /\ cycles' = cycles + 1
  /\ initCmds' = <<>>
  /\ remotes0' = remotes
  /\ UNCHANGED << cfgVars, repoVars, treeVars, farVars, runs, calls, prev,
                  written >>

\* Mutation of SampleUptime: the result of get_uptime is not looked at.
SampleUptime_unchecked ==
  /\ pc = "sample"
  /\ \E out \in UptimeOutputs :
       /\ uptime_output' = out
       /\ cmds' = <<Ran("uptime", out.some)>>
       /\ pc' = "write"
  /\ result' = "none"
  /\ hist0' = history
  /\ log0' = log
  /\ cycles' = cycles + 1
  /\ initCmds' = <<>>
  /\ remotes0' = remotes
  /\ UNCHANGED << cfgVars, repoVars, treeVars, farVars, runs, calls, prev,
                  written >>

\* lines 149-152: a cycle starts; get_uptime returns None when uptime exits
\* non-zero, otherwise its stripped output
SampleUptime ==
  /\ pc = "sample"
  /\ \E out \in UptimeOutputs :
       /\ uptime_output' = out
       /\ cmds' = <<Ran("uptime", out.some)>>
       /\ pc' = IF Truthy(out) THEN "write" ELSE "sleep"
  /\ result' = "none"
  /\ hist0' = history
  /\ log0' = log
  /\ cycles' = cycles + 1
  /\ initCmds' = <<>>
  /\ remotes0' = remotes
  /\ UNCHANGED << cfgVars, repoVars, treeVars, farVars, runs, calls, prev,
                  written >>

\* Mutation of WriteUptime: the result of write_uptime_to_file is not
\* looked at.
WriteUptime_unchecked ==
  /\ pc = "write"
  /\ \E ok \in BOOLEAN :
       /\ cmds' = Append(cmds, Ran("append", ok))
       /\ IF ok
          THEN /\ log' = Append(log, cycles)
               /\ prevLog' = log'
               /\ written' = written \cup {cycles}
               /\ pc' = "add"
          ELSE /\ UNCHANGED << log, prevLog, written >>
               /\ pc' = "add"
  /\ UNCHANGED << cfgVars, repoVars, index, history, rebasing, origHead,
                  farVars, cycles, runs, calls, remotes0, prev,
                  uptime_output, result, hist0, log0, initCmds >>

\* Mutation of WriteUptime: the file is opened with mode 'w'.
WriteUptime_truncating ==
  /\ pc = "write"
  /\ \E ok \in BOOLEAN :
       /\ cmds' = Append(cmds, Ran("append", ok))
       /\ IF ok
          THEN /\ log' = <<cycles>>
               /\ prevLog' = log'
               /\ written' = written \cup {cycles}
               /\ pc' = "add"
          ELSE /\ UNCHANGED << log, prevLog, written >>
               /\ pc' = "sleep"
  /\ UNCHANGED << cfgVars, repoVars, index, history, rebasing, origHead,
                  farVars, cycles, runs, calls, remotes0, prev,
                  uptime_output, result, hist0, log0, initCmds >>

\* lines 82-91 and 154: the line of cycle n is the number n
WriteUptime ==
  /\ pc = "write"
  /\ \E ok \in BOOLEAN :
       /\ cmds' = Append(cmds, Ran("append", ok))
       /\ IF ok
          THEN /\ log' = Append(log, cycles)
               /\ prevLog' = log'
               /\ written' = written \cup {cycles}
               /\ pc' = "add"
          ELSE /\ UNCHANGED << log, prevLog, written >>
               /\ pc' = "sleep"
  /\ UNCHANGED << cfgVars, repoVars, index, history, rebasing, origHead,
                  farVars, cycles, runs, calls, remotes0, prev,
                  uptime_output, result, hist0, log0, initCmds >>

\* line 95: git add uptime.log
GitAdd ==
  /\ pc = "add"
  /\ cmds' = Append(cmds, Ran("add", ~Ignored(ignoreFile.val, UPTIME_FILE_PATH)))
  /\ index' = IF Ignored(ignoreFile.val, UPTIME_FILE_PATH) THEN index ELSE log
  /\ pc' = "status"
  /\ UNCHANGED << cfgVars, repoVars, log, history, rebasing, origHead, prevLog,
                  farVars, countVars, uptime_output, result, hist0, log0,
                  initCmds >>

\* Mutation of GitStatus: the empty status is not treated as "nothing to do".
GitStatus_always_commit ==
  /\ pc = "status"
  /\ cmds' = Append(cmds, Ran("status", TRUE))
  /\ pc' = "commit"
  /\ UNCHANGED << cfgVars, repoVars, treeVars, farVars, countVars,
                  uptime_output, result, hist0, log0, initCmds >>

\* lines 97-100
GitStatus ==
  /\ pc = "status"
  /\ cmds' = Append(cmds, Ran("status", TRUE))
  /\ IF porcelain(history, index, log) = <<>>
     THEN result' = "true" /\ pc' = "sleep"
     ELSE UNCHANGED result /\ pc' = "commit"
  /\ UNCHANGED << cfgVars, repoVars, treeVars, farVars, countVars,
                  uptime_output, hist0, log0, initCmds >>

\* lines 102-107: git commit exits non-zero when nothing is staged
GitCommit ==
  /\ pc = "commit"
  /\ \E ok \in BOOLEAN :
       IF ok /\ index # HeadLog(history)
       THEN /\ cmds' = Append(cmds, Ran("commit", TRUE))
            /\ history' = Append(history, LogCommit(index))
            /\ UNCHANGED result
            /\ pc' = "pull"
       ELSE /\ cmds' = Append(cmds, Ran("commit", FALSE))
            /\ UNCHANGED history
            /\ result' = "false"
            /\ pc' = "sleep"
  /\ UNCHANGED << cfgVars, repoVars, log, index, rebasing, origHead, prevLog,
                  farVars, countVars, uptime_output, hist0, log0, initCmds >>

\* lines 109-112: git pull --rebase origin main.  The fetch fails when the
\* network does or the remote has no such branch.  Otherwise the local
\* commits the remote does not have are replayed on the remote branch; the
\* rebase stops when a remote commit conflicts with the log.
GitPull ==
  /\ pc = "pull"
  /\ \E net \in BOOLEAN :
       LET k == CommonLen(history, remoteHist)
           L == SubSeq(history, k + 1, Len(history))
           R == SubSeq(remoteHist, k + 1, Len(remoteHist))
           J == {i \in 1..Len(L) : L[i].kind \in {"log", "ignore"}}
           j == CHOOSE i \in J : \A m \in J : i <= m
       IN
       IF ~net \/ remoteHist = <<>>
       THEN /\ pc' = "abort"
            /\ cmds' = Append(cmds, Ran("pull", FALSE))
            /\ UNCHANGED treeVars
       ELSE IF R = <<>>
       THEN /\ pc' = "push"
            /\ cmds' = Append(cmds, Ran("pull", TRUE))
            /\ UNCHANGED treeVars
       ELSE IF J # {} /\ \E i \in 1..Len(R) : R[i].conflicts
       THEN /\ pc' = "abort"
            /\ cmds' = Append(cmds, Ran("pull", FALSE))
            /\ rebasing' = TRUE
            /\ origHead' = history
            /\ history' = remoteHist \o SubSeq(L, 1, j - 1)
            /\ log' = ConflictText(HeadLog(SubSeq(history, 1, k + j - 1)),
                                   L[j].log)
            /\ index' = HeadLog(SubSeq(history, 1, k + j - 1))
            /\ UNCHANGED prevLog
       ELSE /\ pc' = "push"
            /\ cmds' = Append(cmds, Ran("pull", TRUE))
            /\ history' = remoteHist \o L
            /\ UNCHANGED << log, index, rebasing, origHead, prevLog >>
  /\ UNCHANGED << cfgVars, repoVars, farVars, countVars, uptime_output,
                  result, hist0, log0, initCmds >>

\* line 115: git rebase --abort returns branch, index and working tree to
\* ORIG_HEAD; it exits non-zero when no rebase is in progress
GitRebaseAbort ==
  /\ pc = "abort"
  /\ cmds' = Append(cmds, Ran("abort", rebasing))
  /\ IF rebasing
     THEN /\ history' = origHead
          /\ index' = HeadLog(origHead)
          /\ log' = HeadLog(origHead)
          /\ rebasing' = FALSE
          /\ prevLog' = log'
          /\ UNCHANGED origHead
     ELSE UNCHANGED treeVars
  /\ pc' = "reset"
  /\ UNCHANGED << cfgVars, repoVars, farVars, countVars, uptime_output,
                  result, hist0, log0, initCmds >>

\* Mutation of GitReset: the reset is a hard one and rewrites the file.
GitReset_hard ==
  /\ pc = "reset"
  /\ cmds' = Append(cmds, Ran("reset", Len(history) >= 2))
  /\ IF Len(history) >= 2
     THEN /\ history' = Front(history)
          /\ index' = HeadLog(history')
          /\ log' = HeadLog(history')
          /\ prevLog' = IF rebasing THEN prevLog ELSE log'
     ELSE UNCHANGED << history, index, log, prevLog >>
  /\ result' = "false"
  /\ pc' = "sleep"
  /\ UNCHANGED << cfgVars, repoVars, rebasing, origHead, farVars,
                  countVars, uptime_output, hist0, log0, initCmds >>

\* Mutation of GitReset: after the rollback the pull is tried again.
GitReset_retry ==
  /\ pc = "reset"
  /\ cmds' = Append(cmds, Ran("reset", Len(history) >= 2))
  /\ IF Len(history) >= 2
     THEN /\ history' = Front(history)
          /\ index' = HeadLog(history')
     ELSE UNCHANGED << history, index >>
  /\ UNCHANGED result
  /\ pc' = "pull"
  /\ UNCHANGED << cfgVars, repoVars, log, rebasing, origHead, prevLog, farVars,
                  countVars, uptime_output, hist0, log0, initCmds >>

\* lines 116-117: git reset HEAD~1 (mixed) moves the branch to the parent
\* and resets the index, keeping the working tree; it exits non-zero when
\* HEAD has no parent
GitReset ==
  /\ pc = "reset"
  /\ cmds' = Append(cmds, Ran("reset", Len(history) >= 2))
  /\ IF Len(history) >= 2
     THEN /\ history' = Front(history)
          /\ index' = HeadLog(history')
     ELSE UNCHANGED << history, index >>
  /\ result' = "false"
  /\ pc' = "sleep"
  /\ UNCHANGED << cfgVars, repoVars, log, rebasing, origHead, prevLog, farVars,
                  countVars, uptime_output, hist0, log0, initCmds >>

\* Mutation of GitPush: a failed push is reported without the fallback.
GitPush_no_fallback ==
  /\ pc = "push"
  /\ \E net \in BOOLEAN :
       IF net /\ IsPrefix(remoteHist, history)
       THEN /\ cmds' = Append(cmds, Ran("push", TRUE))
            /\ remoteHist' = history
            /\ result' = "true"
       ELSE /\ cmds' = Append(cmds, Ran("push", FALSE))
            /\ UNCHANGED remoteHist
            /\ result' = "false"
  /\ pc' = "sleep"
  /\ UNCHANGED << cfgVars, repoVars, treeVars, upstream, foreign, countVars,
                  uptime_output, hist0, log0, initCmds >>

\* lines 119-121 and 127-128: git push origin main is accepted when the
\* network works and the remote branch is an ancestor of the local one
GitPush ==
  /\ pc = "push"
  /\ \E net \in BOOLEAN :
       IF net /\ IsPrefix(remoteHist, history)
       THEN /\ cmds' = Append(cmds, Ran("push", TRUE))
            /\ remoteHist' = history
            /\ result' = "true"
            /\ pc' = "sleep"
       ELSE /\ cmds' = Append(cmds, Ran("push", FALSE))
            /\ UNCHANGED << remoteHist, result >>
            /\ pc' = "push_upstream"
  /\ UNCHANGED << cfgVars, repoVars, treeVars, upstream, foreign, countVars,
                  uptime_output, hist0, log0, initCmds >>

\* Mutation of GitPushUpstream: the failure of the fallback is not reported.
GitPushUpstream_always_true ==
  /\ pc = "push_upstream"
  /\ \E net \in BOOLEAN :
       IF net /\ IsPrefix(remoteHist, history)
       THEN /\ cmds' = Append(cmds, Ran("push_upstream", TRUE))
            /\ remoteHist' = history
            /\ upstream' = TRUE
            /\ result' = "true"
       ELSE /\ cmds' = Append(cmds, Ran("push_upstream", FALSE))
            /\ UNCHANGED << remoteHist, upstream >>
            /\ result' = "true"
  /\ pc' = "sleep"
  /\ UNCHANGED << cfgVars, repoVars, treeVars, foreign, countVars,
                  uptime_output, hist0, log0, initCmds >>

\* lines 122-128: git push --set-upstream origin main
GitPushUpstream ==
  /\ pc = "push_upstream"
  /\ \E net \in BOOLEAN :
       IF net /\ IsPrefix(remoteHist, history)
       THEN /\ cmds' = Append(cmds, Ran("push_upstream", TRUE))
            /\ remoteHist' = history
            /\ upstream' = TRUE
            /\ result' = "true"
       ELSE /\ cmds' = Append(cmds, Ran("push_upstream", FALSE))
            /\ UNCHANGED << remoteHist, upstream >>
            /\ result' = "false"
  /\ pc' = "sleep"
  /\ UNCHANGED << cfgVars, repoVars, treeVars, foreign, countVars,
                  uptime_output, hist0, log0, initCmds >>

\* lines 157-158 and back to line 149
Sleep ==
  /\ pc = "sleep"
  /\ cycles < MaxCycles
  /\ pc' = "sample"
  /\ UNCHANGED << cfgVars, repoVars, treeVars, farVars, countVars, cycleVars,
                  initCmds >>

\* ------------------------------------------------------------ environment
\* somebody else pushes a commit to the branch on the remote; the commit
\* either leaves uptime.log alone or conflicts with local changes to it
RemoteAdvance ==
  /\ pc # "exited"
  /\ foreign < MaxForeign
  /\ foreign' = foreign + 1
  /\ \E c \in BOOLEAN :
       remoteHist' = Append(remoteHist, ForeignCommit(foreign + 1, c))
  /\ UNCHANGED << pc, cfgVars, repoVars, treeVars, upstream, countVars,
                  cycleVars, initCmds >>

\* the operator stops the process while it sleeps or after it has exited,
\* possibly edits config.txt, and starts it again
Restart ==
  /\ pc \in {"sleep", "exited"}
  /\ runs < MaxRuns
  /\ cycles < MaxCycles
  /\ runs' = runs + 1
  /\ pc' = "load"
  /\ cfgFile' \in ConfigFiles
  /\ config' = NoneVal
  /\ current_url' = NoneVal
  /\ uptime_output' = NoneVal
  /\ result' = "none"
  /\ cmds' = <<>>
  /\ initCmds' = <<>>
  /\ remotes0' = remotes
  /\ hist0' = history
  /\ log0' = log
  /\ UNCHANGED << repoVars, treeVars, farVars, cycles, calls, prev, written >>

\* git_commit_and_push is called once more right after it returned, with
\* no change to uptime.log in between
SyncAgain ==
  /\ pc = "sleep"
  /\ result # "none"
  /\ calls < MaxCalls
  /\ calls' = calls + 1
  /\ prev' = [result |-> result, cmds |-> cmds]
  /\ pc' = "add"
  /\ result' = "none"
  /\ cmds' = <<>>
  /\ hist0' = history
  /\ log0' = log
  /\ UNCHANGED << cfgVars, repoVars, treeVars, farVars, cycles, runs,
                  remotes0, written, uptime_output, initCmds >>

\* --------------------------------------------------------- specifications
Startup ==
  \/ LoadConfig
  \/ InitDir
  \/ InitIgnore
  \/ IgnoreAdd
  \/ IgnoreCommit
  \/ Validate
  \/ RemoteGetUrl
  \/ RemoteReconcile

Cycle ==
  \/ SampleUptime
  \/ WriteUptime
  \/ GitAdd
  \/ GitStatus
  \/ GitCommit
  \/ GitPull
  \/ GitRebaseAbort
  \/ GitReset
  \/ GitPush
  \/ GitPushUpstream
  \/ Sleep

Next == Startup \/ Cycle \/ RemoteAdvance

\* one run of the process
Spec == Init /\ [][Next]_vars

\* one run of the process; every command returns and the sleep ends
FairSpec == Init /\ [][Next]_vars /\ WF_vars(Startup \/ Cycle)

NextRestart == Next \/ Restart

\* the process is started several times on the same working directory
SpecRestart == Init /\ [][NextRestart]_vars

NextSync == Next \/ SyncAgain

\* load_config alone, on every generated config file
InitLoad ==
  /\ pc = "load"
  /\ cfgFile \in GeneratedFiles \cup FirstConfigFiles
  /\ config = NoneVal
  /\ current_url = NoneVal
  /\ uptime_output = NoneVal
  /\ gitDir = TRUE
  /\ ignoreFile = Some(IGNORE_RULES)
  /\ ignoreState = "untracked"
  /\ remotes = {}
  /\ log = <<>>
  /\ index = <<>>
  /\ history = <<>>
  /\ remoteHist = <<>>
  /\ upstream = FALSE
  /\ rebasing = FALSE
  /\ origHead = <<>>
  /\ result = "none"
  /\ cmds = <<>>
  /\ initCmds = <<>>
  /\ cycles = 0
  /\ foreign = 0
  /\ runs = 1
  /\ calls = 0
  /\ hist0 = <<>>
  /\ log0 = <<>>
  /\ prevLog = <<>>
  /\ remotes0 = {}
  /\ prev = [result |-> "none", cmds |-> <<>>]
  /\ written = {}

NextLoad == LoadConfig

SpecLoad == InitLoad /\ [][NextLoad]_vars

\* git_commit_and_push is also called directly, back to back
SpecSync == Init /\ [][NextSync]_vars

\* ----------------------------------------------------------------- claims
StartupPcs ==
  {"load", "init_dir", "init_ignore", "ignore_add", "ignore_commit",
   "validate", "get_url", "reconcile"}
LoopPcs ==
  {"sample", "write", "add", "status", "commit", "pull", "abort", "reset",
   "push", "push_upstream", "sleep"}

Issued(c) == \E i \in 1..Len(cmds) : cmds[i].cmd = c
Failed(c) == \E i \in 1..Len(cmds) : cmds[i].cmd = c /\ ~cmds[i].ok
Succeeded(c) == \E i \in 1..Len(cmds) : cmds[i].cmd = c /\ cmds[i].ok
Times(c) == Cardinality({i \in 1..Len(cmds) : cmds[i].cmd = c})
InitIssued(c) == \E i \in 1..Len(initCmds) : initCmds[i] = c

\* the cycle (or direct call) that ran the commands in cmds is over
CycleOver == pc \in {"sleep", "sample"} /\ cmds # <<>>

\* C1: whenever a commit was created in the cycle and the following
\* git pull --rebase failed, the local history at the end of the cycle is
\* the history at the start of the cycle.
C1_RollbackRestoresHistory ==
  (CycleOver /\ Succeeded("commit") /\ Failed("pull")) => history = hist0

\* C2: in a cycle in which the uptime command exits non-zero the log file
\* is unchanged and no git add, commit, pull or push is issued.
C2_SamplingFailureSkipsCycle ==
  (cmds # <<>> /\ cmds[1] = Ran("uptime", FALSE))
    => (log = log0 /\ history = hist0 /\ cmds = <<Ran("uptime", FALSE)>>)

C2_Witness ==
  /\ pc = "sleep"
  /\ cmds = <<Ran("uptime", FALSE)>>
  /\ cycles >= 2
  /\ log # <<>>

\* the commands of a direct call of git_commit_and_push start with git add
DirectCallOver == CycleOver /\ cmds[1].cmd = "add" /\ result # "none"
PrevCommittedAndPushed ==
  /\ prev.result = "true"
  /\ \E i \in 1..Len(prev.cmds) : prev.cmds[i] = Ran("commit", TRUE)
  /\ \E i \in 1..Len(prev.cmds) :
       prev.cmds[i] \in {Ran("push", TRUE), Ran("push_upstream", TRUE)}

\* C3: when git_commit_and_push is called again right after a call that
\* committed and pushed, with no change to the log file in between, the
\* second call runs only git add and git status, creates no commit,
\* returns success, and the number of commits is unchanged.
C3_SecondSyncIsNoOp ==
  (DirectCallOver /\ PrevCommittedAndPushed)
    => /\ cmds = <<Ran("add", TRUE), Ran("status", TRUE)>>
       /\ result = "true"
       /\ history = hist0
       /\ Len(history) = Len(hist0)

C3_Witness ==
  /\ DirectCallOver
  /\ PrevCommittedAndPushed
  /\ pc = "sleep"
  /\ Len(history) >= 1

UnresolvedFiles ==
  { FileAbsent, FileMalformed, FileEmpty, FileTokenPlaceholder,
    FileUrlPlaceholder, FileTokenEmpty, FileUrlMissing }

\* C5 as stated: with an unresolved configuration no repository
\* initializing action is performed and the loop is not entered.
C5_UnresolvedSkipsInitialization ==
  cfgFile \in UnresolvedFiles => (initCmds = <<>> /\ pc \notin LoopPcs)

\* C5 amended: with an unresolved configuration no remote command is run,
\* the remotes are unchanged and the loop is not entered.
C5_UnresolvedSkipsRemote ==
  cfgFile \in UnresolvedFiles
    => /\ ~InitIssued("get-url")
       /\ ~InitIssued("remote_add")
       /\ ~InitIssued("set-url")
       /\ remotes = remotes0
       /\ pc \notin LoopPcs

C5_Witness ==
  /\ pc = "exited"
  /\ cfgFile = FileTokenPlaceholder
  /\ initCmds = <<"init", "write_ignore", "add_ignore", "commit_ignore">>

\* C6: after a configuration failure the process never enters the loop: no
\* uptime sample, no line appended, no log commit, pull or push.
C6_ConfigFailureNeverLoops ==
  cfgFile \in UnresolvedFiles
    => /\ pc \in StartupPcs \cup {"exited"}
       /\ cycles = 0
       /\ cmds = <<>>
       /\ log = log0
       /\ \A i \in 1..Len(history) : history[i].kind # "log"
       /\ \A i \in 1..Len(remoteHist) : remoteHist[i].kind # "log"

C6_Witness ==
  /\ pc = "exited"
  /\ cfgFile = FileMalformed
  /\ config = NoneVal

\* the authenticated URL each valid config file asks for
TargetUrl(file) ==
  IF file = FileValid THEN <<"https://", "tok", "@", "host/repo.git">>
  ELSE <<"https://", "tok2", "@", "host/repo.git">>
ValidFiles == {FileValid, FileValid2}
Bound(rs) == {r \in rs : r.name = GIT_REMOTE_NAME}
\* initialize_git_repository has returned True and no cycle has started
InitDone == pc = "sample" /\ InitIssued("get-url") /\ cfgFile \in ValidFiles

\* C7: when initialization runs with valid credentials and the remote name
\* is already bound to the target URL, neither git remote add nor
\* git remote set-url is run and the remotes are unchanged.
C7_BoundRemoteUntouched ==
  (InitDone /\ Bound(remotes0) = {[name |-> GIT_REMOTE_NAME,
                                   url |-> TargetUrl(cfgFile)]})
    => /\ ~InitIssued("remote_add")
       /\ ~InitIssued("set-url")
       /\ remotes = remotes0

C7_Witness ==
  /\ pc = "sample"
  /\ runs = 2
  /\ cfgFile = FileValid
  /\ initCmds = <<"get-url">>
  /\ Bound(remotes0) = {[name |-> GIT_REMOTE_NAME, url |-> TargetUrl(FileValid)]}

\* C8: after any number of initializations with valid credentials exactly
\* one remote has the fixed name and it is bound to the authenticated URL;
\* git remote add was run only when the name was unbound and
\* git remote set-url only when it was bound to a different URL.
C8_RemoteReconciled ==
  /\ Cardinality(Bound(remotes)) <= 1
  /\ (pc \in LoopPcs /\ cfgFile \in ValidFiles)
       => Bound(remotes) = {[name |-> GIT_REMOTE_NAME,
                             url |-> TargetUrl(cfgFile)]}
  /\ InitDone
       => /\ InitIssued("remote_add") <=> Bound(remotes0) = {}
          /\ InitIssued("set-url")
               <=> /\ Bound(remotes0) # {}
                   /\ Bound(remotes0) # Bound(remotes)
          /\ remotes \ Bound(remotes) = remotes0 \ Bound(remotes0)

C8_Witness ==
  /\ pc = "sample"
  /\ runs = 2
  /\ InitIssued("set-url")
  /\ Bound(remotes0) = {[name |-> GIT_REMOTE_NAME, url |-> TargetUrl(FileValid)]}
  /\ Bound(remotes) = {[name |-> GIT_REMOTE_NAME, url |-> TargetUrl(FileValid2)]}

C10_PushFallback ==
  (CycleOver /\ Issued("push"))
    => /\ Issued("push_upstream") <=> Failed("push")
       /\ Times("push") = 1
       /\ Times("push_upstream") <= 1
       /\ result = "false" <=> (Failed("push") /\ Failed("push_upstream"))
       /\ result # "false" => result = "true"
       /\ Succeeded("commit") /\ Succeeded("pull")

C10_Witness ==
  /\ pc = "sleep"
  /\ Failed("push")
  /\ Succeeded("push_upstream")
  /\ result = "true"

\* C11: when the append to the log file fails, the cycle runs no git
\* command (no add, status, commit, pull or push) and leaves the
\* repository as it was.
C11_AppendFailureSkipsSync ==
  /\ [](Failed("append")
          => /\ cmds = <<Ran("uptime", TRUE), Ran("append", FALSE)>>
             /\ pc \in {"sleep", "sample"}
             /\ history = hist0
             /\ log = log0)
  /\ [][(pc = "write" /\ cmds' = Append(cmds, Ran("append", FALSE)))
          => /\ pc' = "sleep"
             /\ UNCHANGED << history, index, log, rebasing, origHead,
                             gitDir, ignoreFile, ignoreState, remotes,
                             remoteHist, upstream >>]_vars

C11_Witness ==
  /\ pc = "sleep"
  /\ cmds = <<Ran("uptime", TRUE), Ran("append", FALSE)>>
  /\ cycles >= 2
  /\ Len(history) >= 1
  /\ log # <<>>

\* the lines of config.txt as the claims speak of them
NonSpace(l) == {j \in 1..Len(l) : l[j] \notin {" ", "\n"}}
IsBlank(l) == NonSpace(l) = {}
FirstNonSpace(l) == CHOOSE j \in NonSpace(l) : \A m \in NonSpace(l) : j <= m
LastNonSpace(l) == CHOOSE j \in NonSpace(l) : \A m \in NonSpace(l) : m <= j
IsComment(l) == ~IsBlank(l) /\ l[FirstNonSpace(l)] = "#"
HasEq(l) == \E j \in 1..Len(l) : l[j] = "="
BadLine(l) == ~IsBlank(l) /\ ~IsComment(l) /\ ~HasEq(l)
Trimmed(l) == IF IsBlank(l) THEN <<>> ELSE SubSeq(l, FirstNonSpace(l), LastNonSpace(l))
EqAt(l) == CHOOSE j \in 1..Len(l) : l[j] = "=" /\ \A m \in 1..(j - 1) : l[m] # "="
KeyOf(l) == Trimmed(SubSeq(l, 1, EqAt(l) - 1))
ValueOf(l) == Trimmed(SubSeq(l, EqAt(l) + 1, Len(l)))
EntryLines == {i \in 1..Len(cfgFile.lines) :
                 ~IsBlank(cfgFile.lines[i]) /\ ~IsComment(cfgFile.lines[i])}
Loaded == pc # "load"

\* C12: load_config returns None when the file is absent or when some line
\* that, trimmed, is not empty and does not begin with "#" contains no "=";
\* no partial mapping from the earlier lines is returned.
C12_LoadFailsOnBadLine ==
  (Loaded /\ (~cfgFile.exists
              \/ \E i \in 1..Len(cfgFile.lines) : BadLine(cfgFile.lines[i])))
    => config = NoneVal

C12_Witness ==
  /\ Loaded
  /\ cfgFile.lines = << <<"k", "=", "k", "\n">>, <<" ", "k">> >>
  /\ config = NoneVal

\* C13: when every line that, trimmed, is not empty and does not begin with
\* "#" contains "=", load_config returns a mapping whose keys are exactly
\* the trimmed texts before the first "=" of those lines, each with the
\* trimmed text after the first "=" of the last line that has the key.
C13_LoadReturnsExactMapping ==
  (Loaded /\ cfgFile.exists
          /\ \A i \in 1..Len(cfgFile.lines) : ~BadLine(cfgFile.lines[i]))
    => /\ config.some
       /\ DOMAIN config.val = {KeyOf(cfgFile.lines[i]) : i \in EntryLines}
       /\ \A i \in EntryLines :
            (\A j \in EntryLines :
               j > i => KeyOf(cfgFile.lines[j]) # KeyOf(cfgFile.lines[i]))
              => config.val[KeyOf(cfgFile.lines[i])] = ValueOf(cfgFile.lines[i])

C13_Witness ==
  /\ Loaded
  /\ cfgFile.lines = << <<"#", "\n">>, <<"k", " ", "=", "=">> >>
  /\ DOMAIN config.val = {<<"k">>}
  /\ config.val[<<"k">>] = <<"=">>

\* the order of the operations of a cycle
CycleOrder ==
  <<"uptime", "append", "add", "status", "commit", "pull", "abort", "reset",
    "push", "push_upstream">>
Rank(c) == CHOOSE k \in 1..Len(CycleOrder) : CycleOrder[k] = c

\* C14: within a cycle the operations run in the order sample, append,
\* stage, status, commit, pull-rebase, rollback or push; each at most once
\* (push once plain and once with set-upstream); pull only after a commit
\* was created, push only after the pull succeeded, rebase --abort and
\* reset only after the pull failed.
C14_CycleOrder ==
  /\ \A i, j \in 1..Len(cmds) :
       i < j => Rank(cmds[i].cmd) < Rank(cmds[j].cmd)
  /\ Issued("pull") => Succeeded("commit")
  /\ Issued("push") => Succeeded("pull")
  /\ Issued("push_upstream") => Issued("push")
  /\ (Issued("abort") \/ Issued("reset")) => Failed("pull")

C14_Witness ==
  /\ pc = "sleep"
  /\ Len(cmds) = 8
  /\ cmds[7] = Ran("push", FALSE)
  /\ cmds[8].cmd = "push_upstream"

\* C15: an existing .gitignore is never rewritten and no add or commit is
\* run for it; a missing one is written with rules that ignore everything
\* but uptime.log, and its git add and git commit follow immediately,
\* before the credentials are validated and before any remote command.
C15_IgnoreFileOnce ==
  /\ [][/\ ignoreFile.some => ignoreFile' = ignoreFile
        /\ (pc = "init_ignore" /\ pc' # pc /\ ignoreFile.some)
             => (initCmds' = initCmds /\ pc' = "validate")
        /\ (pc = "init_ignore" /\ pc' # pc /\ ~ignoreFile.some)
             => /\ ignoreFile' = Some(<<"*", "!uptime.log">>)
                /\ initCmds' = Append(initCmds, "write_ignore")
                /\ pc' = "ignore_add"]_vars
  /\ [](\A i \in 1..Len(initCmds) :
          /\ initCmds[i] = "write_ignore"
               => /\ \A j \in 1..Len(initCmds) : initCmds[j] = "write_ignore" => j = i
                  /\ \A j \in 1..(i - 1) : initCmds[j] = "init"
                  /\ Len(initCmds) = i => pc = "ignore_add"
                  /\ Len(initCmds) > i => initCmds[i + 1] = "add_ignore"
                  /\ Len(initCmds) = i + 1 => pc = "ignore_commit"
                  /\ Len(initCmds) > i + 1 => initCmds[i + 2] = "commit_ignore"
          /\ initCmds[i] = "add_ignore" => (i > 1 /\ initCmds[i - 1] = "write_ignore")
          /\ initCmds[i] = "commit_ignore" => (i > 1 /\ initCmds[i - 1] = "add_ignore"))

C15_Witness ==
  /\ runs = 2
  /\ pc = "exited"
  /\ cfgFile = FileUrlPlaceholder
  /\ initCmds = <<>>
  /\ ignoreFile = Some(IGNORE_RULES)
  /\ ignoreState = "untracked"
  /\ remotes0 = {}

C15_WitnessWritten ==
  /\ pc = "validate"
  /\ initCmds = <<"init", "write_ignore", "add_ignore", "commit_ignore">>

\* every command of the cycle exited with status zero, up to the push
FullySuccessful ==
  /\ cmds # <<>>
  /\ cmds[1].cmd = "uptime"
  /\ Issued("push")
  /\ \A i \in 1..Len(cmds) : cmds[i].ok
LinesOf(l) == {l[i] : i \in 1..Len(l)}
LogCommits(h) == {i \in 1..Len(h) : h[i].kind = "log"}

\* C16: at the end of every fully successful cycle the remote branch holds
\* every line that was ever appended to the log file, also the lines of
\* earlier cycles that ended in a commit failure, a rollback or a double
\* push failure; so every appended line reaches the remote as long as
\* fully successful cycles keep occurring.
C16_LinesReachRemote ==
  (CycleOver /\ FullySuccessful) => written \subseteq LinesOf(HeadLog(remoteHist))

C16_Witness ==
  /\ pc = "sleep"
  /\ FullySuccessful
  /\ written = {1, 2, 3}
  /\ Cardinality(LogCommits(remoteHist)) = 1

\* C17: whenever a cycle's git_commit_and_push has reported success, the
\* remote branch contains every commit of the local history.
C17_SuccessMeansPushed ==
  (CycleOver /\ result = "true") => IsPrefix(history, remoteHist)

C17_Witness ==
  /\ pc = "sleep"
  /\ result = "true"
  /\ Succeeded("push_upstream")
  /\ Cardinality(LogCommits(hist0)) >= 1
  /\ Cardinality(LogCommits(history)) = Cardinality(LogCommits(hist0)) + 1
  /\ remoteHist = history

====
